---- MODULE Spec2Model ----
(***************************************************************************)
(* Model of the JWT token generator form (matrunchyk/jwt-token-generator). *)
(*                                                                         *)
(* Three revisions of the App component are modelled side by side:         *)
(*   "catalog" : src/unnamed/part_000 lines 1-372   (jose, grouped catalog)*)
(*   "flat"    : src/unnamed/part_000 lines 374-677 (jose, flat list)      *)
(*   "encode"  : src/src/App.tsx                    (jwt-encode, sync)     *)
(*                                                                         *)
(* Text is modelled as a sequence of tokens, JSON values as tagged         *)
(* records, and JSON.stringify / JSON.parse as a serializer and a          *)
(* recursive-descent parser over token sequences.                          *)
(***************************************************************************)
EXTENDS Integers, Sequences, FiniteSets, TLC

(***************************************************************************)
(* Text: a JavaScript string is a sequence of tokens.                      *)
(*   k = "p" punctuation, "w" bare word, "n" the decimal numeral of n,     *)
(*   "q" a quoted string literal whose content is the text q, "b64" the    *)
(*   base64 encoding of the text q, "pem" a PEM block of a key of type s.  *)
(***************************************************************************)
Tok(k, s, n, q) == [k |-> k, s |-> s, n |-> n, q |-> q]

P(c) == Tok("p", c, 0, <<>>)

W(w) == Tok("w", w, 0, <<>>)

N(n) == Tok("n", "", n, <<>>)

Q(t) == Tok("q", "", 0, t)

Str(w) == <<W(w)>>

EmptyText == <<>>

(***************************************************************************)
(* JavaScript values.  t is the type tag; s the text of a string; n the    *)
(* number (or 0/1 for a boolean); m the members of an object or array, in  *)
(* property order, each [k |-> key text, v |-> value].                     *)
(***************************************************************************)
JV(t, s, n, m) == [t |-> t, s |-> s, n |-> n, m |-> m]

Undefined == JV("undef", <<>>, 0, <<>>)

JNull == JV("null", <<>>, 0, <<>>)

JStr(s) == JV("str", s, 0, <<>>)

JNum(n) == JV("num", <<>>, n, <<>>)

JBool(b) == JV("bool", <<>>, IF b THEN 1 ELSE 0, <<>>)

JObj(m) == JV("obj", <<>>, 0, m)

JArr(m) == JV("arr", <<>>, 0, m)

Member(k, v) == [k |-> k, v |-> v]

\* index of key k among members m, 0 when absent
IndexOf(m, k) ==
    IF \E i \in 1..Len(m) : m[i].k = k
    THEN CHOOSE i \in 1..Len(m) : m[i].k = k
    ELSE 0

\* property read v[k]: own property of an object or array, else undefined
Get(v, k) ==
    IF v.t \in {"obj", "arr"} /\ IndexOf(v.m, k) # 0
    THEN v.m[IndexOf(v.m, k)].v
    ELSE Undefined

\* property write on a member list: overwrite in place, or append
Put(m, k, val) ==
    IF IndexOf(m, k) # 0
    THEN [m EXCEPT ![IndexOf(m, k)] = Member(k, val)]
    ELSE Append(m, Member(k, val))

RECURSIVE PutAll(_, _)
\* object spread of the members src over the members dst, left to right
PutAll(dst, src) ==
    IF src = <<>> THEN dst
    ELSE PutAll(Put(dst, Head(src).k, Head(src).v), Tail(src))

\* {...v}: own enumerable properties of v; none for primitives
Spread(v) == IF v.t \in {"obj", "arr"} THEN v.m ELSE <<>>

(***************************************************************************)
(* JSON.stringify                                                          *)
(***************************************************************************)
RECURSIVE Stringify(_)
RECURSIVE StringifyMembers(_, _, _)

\* members joined by commas; keys are written for objects only
StringifyMembers(m, i, withKeys) ==
    IF i > Len(m) THEN <<>>
    ELSE (IF i > 1 THEN <<P(",")>> ELSE <<>>)
         \o (IF withKeys THEN <<Q(m[i].k), P(":")>> ELSE <<>>)
         \o Stringify(m[i].v)
         \o StringifyMembers(m, i + 1, withKeys)

\* an object member whose value is undefined is not serialized
IsDefinedMember(e) == e.v.t # "undef"

Stringify(v) ==
    CASE v.t = "str"  -> <<Q(v.s)>>
      [] v.t = "num"  -> <<N(v.n)>>
      [] v.t = "bool" -> <<W(IF v.n = 1 THEN "true" ELSE "false")>>
      [] v.t = "null" -> <<W("null")>>
      [] v.t = "obj"  -> <<P("{")>>
                         \o StringifyMembers(SelectSeq(v.m, IsDefinedMember), 1, TRUE)
                         \o <<P("}")>>
      [] v.t = "arr"  -> <<P("[")>> \o StringifyMembers(v.m, 1, FALSE) \o <<P("]")>>
      [] OTHER        -> <<W("undefined")>>

(***************************************************************************)
(* JSON.parse: recursive descent over the tokens.  A parse result is       *)
(* [ok, v, i]: whether a value was read, the value, the next position.     *)
(***************************************************************************)
PFail == [ok |-> FALSE, v |-> Undefined, i |-> 0]

POk(v, i) == [ok |-> TRUE, v |-> v, i |-> i]

IsP(toks, i, c) == i <= Len(toks) /\ toks[i] = P(c)

RECURSIVE ParseValue(_, _)
RECURSIVE ParseMembers(_, _, _)
RECURSIVE ParseElements(_, _, _)

\* after "{" or ",": a key literal, ":", a value, then "," or "}"
ParseMembers(toks, i, acc) ==
    IF i + 1 <= Len(toks) /\ toks[i].k = "q" /\ toks[i + 1] = P(":")
    THEN LET r == ParseValue(toks, i + 2) IN
         IF ~r.ok THEN PFail
         ELSE LET acc2 == Put(acc, toks[i].q, r.v) IN
              IF IsP(toks, r.i, ",") THEN ParseMembers(toks, r.i + 1, acc2)
              ELSE IF IsP(toks, r.i, "}") THEN POk(JObj(acc2), r.i + 1)
              ELSE PFail
    ELSE PFail

\* after "[" or ",": a value, then "," or "]"
ParseElements(toks, i, acc) ==
    LET r == ParseValue(toks, i) IN
    IF ~r.ok THEN PFail
    ELSE LET acc2 == Append(acc, Member(<<N(Len(acc))>>, r.v)) IN
         IF IsP(toks, r.i, ",") THEN ParseElements(toks, r.i + 1, acc2)
         ELSE IF IsP(toks, r.i, "]") THEN POk(JArr(acc2), r.i + 1)
         ELSE PFail

ParseValue(toks, i) ==
    IF i > Len(toks) THEN PFail
    ELSE LET tk == toks[i] IN
         CASE tk.k = "q" -> POk(JStr(tk.q), i + 1)
           [] tk.k = "n" -> POk(JNum(tk.n), i + 1)
           [] tk.k = "w" ->
                IF tk.s = "null" THEN POk(JNull, i + 1)
                ELSE IF tk.s = "true" THEN POk(JBool(TRUE), i + 1)
                ELSE IF tk.s = "false" THEN POk(JBool(FALSE), i + 1)
                ELSE PFail
           [] tk = P("{") ->
                IF IsP(toks, i + 1, "}") THEN POk(JObj(<<>>), i + 2)
                ELSE ParseMembers(toks, i + 1, <<>>)
           [] tk = P("[") ->
                IF IsP(toks, i + 1, "]") THEN POk(JArr(<<>>), i + 2)
                ELSE ParseElements(toks, i + 1, <<>>)
           [] OTHER -> PFail

\* JSON.parse(text): [ok, v]; ok = FALSE is a thrown SyntaxError
JSONParse(text) ==
    LET r == ParseValue(text, 1) IN
    IF r.ok /\ r.i = Len(text) + 1 THEN [ok |-> TRUE, v |-> r.v]
    ELSE [ok |-> FALSE, v |-> Undefined]

\* ToString(v), the coercion JSON.parse applies to a non-string argument
ToText(v) ==
    CASE v.t = "str"   -> v.s
      [] v.t = "num"   -> <<N(v.n)>>
      [] v.t = "bool"  -> <<W(IF v.n = 1 THEN "true" ELSE "false")>>
      [] v.t = "null"  -> <<W("null")>>
      [] v.t = "undef" -> <<W("undefined")>>
      [] v.t = "obj"   -> <<W("[object Object]")>>
      [] OTHER         -> StringifyMembers(v.m, 1, FALSE)

(***************************************************************************)
(* Sample inputs                                                           *)
(***************************************************************************)
Revs == {"catalog", "flat", "encode"}

JoseRevs == {"catalog", "flat"}

\* an algorithm identifier is the text of its family prefix and its digits
AlgId(fam, bits) == <<W(fam), W(bits)>>

Families == {"HS", "RS", "ES", "PS"}

HashBits == {"256", "384", "512"}

\* the 12 identifiers offered by the algorithm select of every revision
Catalog == {AlgId(f, b) : f \in Families, b \in HashBits}

\* identifiers the user picks in the select during a run
AlgChoices == {AlgId("HS", "256"), AlgId("RS", "256"), AlgId("ES", "384")}

\* identifiers outside the catalog, reachable through the persisted slot only
ForeignAlgs == {Str("none"), AlgId("HS", "999")}

\* a PKCS#8 PEM block holding a private key of type kt
Pem(kt) == <<Tok("pem", kt, 0, <<>>)>>

Emails == {Str("a@b.com")}

Secrets == {Str("s3cret"), Pem("P-384")}

TextEmptyObject == <<P("{"), P("}")>>

TextBadJSON == <<P("{"), W("bad"), W("json")>>

TextRoleSub ==
    <<P("{"), Q(Str("role")), P(":"), Q(Str("admin")), P(","),
      Q(Str("sub")), P(":"), Q(Str("evil")), P("}")>>

CustomTexts == {TextBadJSON, TextRoleSub}

KEmail == Str("email")

KSecret == Str("jwtSecret")

KCustom == Str("customJSON")

KAlgorithm == Str("algorithm")

FormOf(email, secret, custom, alg) ==
    JObj(<<Member(KEmail, JStr(email)), Member(KSecret, JStr(secret)),
           Member(KCustom, JStr(custom)), Member(KAlgorithm, JStr(alg))>>)

\* the literal of the useState initializer
DefaultFormData ==
    FormOf(EmptyText, EmptyText, TextEmptyObject, AlgId("HS", "256"))

\* contents of the localStorage slot 'jwtFormData' found at the first load:
\* absent, left by an earlier session, or not written by this program
InitialSlots ==
    {<<>>, <<EmptyText>>, <<TextBadJSON>>, <<Str("null")>>, <<<<N(5)>>>>}
    \cup {<<Stringify(FormOf(Str("a@b.com"), Pem("RSA"), TextRoleSub,
                             AlgId("PS", "512")))>>,
          <<Stringify(FormOf(Str("a@b.com"), Pem("P-384"), TextEmptyObject,
                             AlgId("ES", "384")))>>}
    \cup {<<Stringify(FormOf(Str("a@b.com"), Str("s3cret"), TextEmptyObject, a))>> :
              a \in ForeignAlgs}
    \cup {<<Stringify(JObj(<<Member(KEmail, JNum(5)),
                             Member(KSecret, JStr(Str("s3cret")))>>))>>}

(***************************************************************************)
(* The grouped catalog of the "catalog" revision                           *)
(***************************************************************************)
AlgEntry(key, large) == [key |-> key, largeInput |-> large]

AlgGroup(title, label, fam, large) ==
    [title |-> title, secretLabel |-> label,
     algorithms |-> <<AlgEntry(AlgId(fam, "256"), large),
                      AlgEntry(AlgId(fam, "384"), large),
                      AlgEntry(AlgId(fam, "512"), large)>>]

supportedAlgorithms ==
    <<AlgGroup("HMAC (Shared Secret)", "JWT Secret", "HS", FALSE),
      AlgGroup("RSA (Public/Private Key Pair)", "RSA Private Key", "RS", TRUE),
      AlgGroup("ECDSA (Elliptic Curve)", "EC Private Key", "ES", TRUE),
      AlgGroup("RSA-PSS (Public/Private Key Pair)", "RSA Private Key", "PS", TRUE)>>

\* flatMap(group => algorithms.map(a => ({...a, keyTitle: group.secretLabel})))
FlatAlgorithms ==
    {[key |-> supportedAlgorithms[g].algorithms[a].key,
      largeInput |-> supportedAlgorithms[g].algorithms[a].largeInput,
      keyTitle |-> supportedAlgorithms[g].secretLabel] :
        g \in 1..Len(supportedAlgorithms), a \in 1..3}

\* .find(alg => alg.key === value): the set holds at most one such entry
FindAlgorithm(value) == {e \in FlatAlgorithms : e.key = value}

(***************************************************************************)
(* Token building                                                          *)
(***************************************************************************)
TickSeconds == 30


\* Date.now() in milliseconds
NowMs(t) == t * TickSeconds * 1000

\* tomorrow.toISOString().slice(0, 16): the minute of now + 1 day
Tomorrow(t) == (NowMs(t) + 86400000) \div 60000

MsgInvalidJSON == "Invalid JSON in custom data"

MsgUnsupported == "Unsupported algorithm"

MsgNotAString == "TypeError: formData.algorithm.startsWith is not a function"

MsgNotPKCS8 == "\"pkcs8\" must be PKCS#8 formatted string"

MsgImportAlg == "Invalid or unsupported \"alg\" (Algorithm) value"

MsgKeyData == "DataError: key data does not fit the algorithm"

MsgSignAlg == "alg is not supported either by JOSE or your javascript runtime"

MsgEmptyKey == "DataError: zero-length key"

MsgSecretType == "TypeError: secret is not a string"

\* text.startsWith(prefix), for a prefix that is one token long
StartsWith(text, prefix) == Len(text) >= 1 /\ text[1] = W(prefix)

\* btoa(text): base64 of the text; the empty text encodes to itself
Btoa(text) == IF text = EmptyText THEN EmptyText ELSE <<Tok("b64", "", 0, text)>>

Key(kind, t) == [kind |-> kind, t |-> t]

NoKey == Key("none", EmptyText)

\* new TextEncoder().encode(text): the UTF-8 bytes of the text
Encode(text) == Key("bytes", text)

\* TextEncoder.encode(v): undefined encodes as the empty text
EncodeValue(v) == IF v.t = "undef" THEN Encode(EmptyText) ELSE Encode(ToText(v))

\* the key type importPKCS8 asks the platform to import for alg
KeyTypeFor(alg) ==
    IF alg = AlgId("ES", "256") THEN "P-256"
    ELSE IF alg = AlgId("ES", "384") THEN "P-384"
    ELSE IF alg = AlgId("ES", "512") THEN "P-521"
    ELSE "RSA"

\* importPKCS8(secret, alg): [ok, key, msg]
importPKCS8(secret, alg) ==
    IF secret.t # "str" \/ Len(secret.s) # 1 \/ secret.s[1].k # "pem"
    THEN [ok |-> FALSE, key |-> NoKey, msg |-> MsgNotPKCS8]
    ELSE IF alg \notin Catalog \/ StartsWith(alg, "HS")
    THEN [ok |-> FALSE, key |-> NoKey, msg |-> MsgImportAlg]
    ELSE IF secret.s[1].s # KeyTypeFor(alg)
    THEN [ok |-> FALSE, key |-> NoKey, msg |-> MsgKeyData]
    ELSE [ok |-> TRUE, key |-> Key("private", secret.s), msg |-> ""]

\* Math.floor(new Date(expiration).getTime() / 1000)
ExpSeconds(e) == (e * 60000) \div 1000

\* uuidv4(): the n-th identifier drawn
Uuid(n) == JStr(<<W("uuid"), N(n)>>)

\* the payload literal of the jose revisions
JosePayload(fd, e, jti, custom) ==
    PutAll(<<Member(Str("sub"), Get(fd, KEmail)),
             Member(Str("exp"), JNum(ExpSeconds(e))),
             Member(Str("jti"), jti),
             Member(Str("username"), Get(fd, KEmail)),
             Member(Str("userId"), Get(fd, KEmail))>>,
           Spread(custom))

\* the payload literal of the jwt-encode revision
EncodePayload(fd, e, jti, custom) ==
    PutAll(<<Member(Str("sub"), Get(fd, KEmail)),
             Member(Str("exp"), JNum(ExpSeconds(e))),
             Member(Str("jti"), jti),
             Member(Str("alg"), Get(fd, KAlgorithm)),
             Member(Str("username"), Get(fd, KEmail)),
             Member(Str("userId"), Get(fd, KEmail))>>,
           Spread(custom))

\* the claims object handed to new SignJWT(...)
SignJWTClaims(r, payload) ==
    IF r = "catalog" THEN payload
    ELSE <<Member(Str("urn:jwt-token-generator:claim"), JBool(TRUE))>>

\* variant: the expiration is written relative to the time of issue
SetStandardClaimsRelativeExp(claims, t, jti, sub, e) ==
    Put(Put(Put(Put(Put(Put(claims,
        Str("iat"), JNum(NowMs(t) \div 1000)),
        Str("jti"), jti),
        Str("sub"), sub),
        Str("iss"), JStr(Str("jwt-token-generator.netlify.app"))),
        Str("aud"), JStr(Str("urn:jwt-token-generator:api"))),
        Str("exp"), JNum(NowMs(t) \div 1000 + ExpSeconds(e)))

\* .setIssuedAt().setJti(jti).setSubject(sub).setIssuer(..).setAudience(..)
\* .setExpirationTime(exp): each setter writes one claim
SetStandardClaims(claims, t, jti, sub, e) ==
    Put(Put(Put(Put(Put(Put(claims,
        Str("iat"), JNum(NowMs(t) \div 1000)),
        Str("jti"), jti),
        Str("sub"), sub),
        Str("iss"), JStr(Str("jwt-token-generator.netlify.app"))),
        Str("aud"), JStr(Str("urn:jwt-token-generator:api"))),
        Str("exp"), JNum(ExpSeconds(e)))

\* the compact token: header text, payload text, signature
Token(header, claims, alg, key) ==
    [h |-> Stringify(JObj(header)), p |-> Stringify(JObj(claims)),
     sig |-> [alg |-> alg, key |-> key]]

\* possible results of jose's sign(key) for the header algorithm alg
JoseSignOutcomes(alg, key) ==
    IF alg \notin Catalog THEN {MsgSignAlg}
    ELSE IF key.kind = "bytes" /\ key.t = EmptyText THEN {"", MsgEmptyKey}
    ELSE {""}

(***************************************************************************)
(* State                                                                   *)
(***************************************************************************)
VARIABLES
    rev,            \* which revision of App is running
    now,            \* wall clock, in ticks of TickSeconds
    store,          \* localStorage slot 'jwtFormData': <<>> absent, <<text>>
    crashed,        \* the component threw while rendering: nothing is shown
    formData,       \* useState formData
    expiration,     \* useState expiration: a datetime-local, in minutes
    generatedToken, \* useState generatedToken: <<>> is '', else <<token>>
    error,          \* useState error
    keyTitle,       \* useState keyTitle (label of the secret field)
    largeInput,     \* useState largeInput
    isJSONValid,    \* useState isJSONValid
    inflight,       \* generateToken calls suspended at an await
    issued,         \* number of uuidv4() identifiers drawn so far
    steps,          \* number of user and clock events handled so far
    showCopySuccess,\* useState showCopySuccess
    clipboard,      \* the platform clipboard: <<>> or <<token>>
    copies,         \* copyToClipboard calls suspended at writeText: the
                    \* token each one passed
    timers,         \* pending setTimeout callbacks of copyToClipboard
    last,           \* history: the generateToken call that completed last,
                    \* or the page load when none completed since
    earlier         \* history: the successful call completed just before
                    \* the last one, when that one succeeded too

vars == <<rev, now, store, crashed, formData, expiration, generatedToken,
          error, keyTitle, largeInput, isJSONValid, inflight, issued, steps,
          showCopySuccess, clipboard, copies, timers, last, earlier>>

formVars == <<store, formData, isJSONValid>>

labelVars == <<keyTitle, largeInput>>

copyVars == <<showCopySuccess, clipboard, copies, timers>>

\* events explored: inputs, clock ticks and clicks that reach the signer
MaxSteps == 3

\* expirations typed into the datetime-local input
ExpirationChoices == {2000}

InitialKeyTitle(r) ==
    IF r \in JoseRevs THEN "JWT Secret (Shared Key)" ELSE "JWT Secret"

NoLast ==
    [done |-> FALSE, reloaded |-> FALSE, form |-> Undefined, expiration |-> 0,
     ok |-> FALSE, imported |-> FALSE, signed |-> FALSE, before |-> <<>>,
     errorBefore |-> ""]

Reloaded == [NoLast EXCEPT !.reloaded = TRUE]

NoEarlier == [done |-> FALSE, form |-> Undefined, expiration |-> 0, token |-> <<>>]

\* JSON.parse(formData.customJSON)
ParseCustom(fd) == JSONParse(ToText(Get(fd, KCustom)))

\* variant: the inner catch swallows the error and keeps the {} default
TryParseCustomSwallowed(fd) ==
    IF ParseCustom(fd).ok THEN ParseCustom(fd)
    ELSE [ok |-> TRUE, v |-> JObj(<<>>)]

\* try { JSON.parse(formData.customJSON) } catch { throw new Error(..) }:
\* ok = FALSE is the rethrown 'Invalid JSON in custom data'
TryParseCustom(fd) == ParseCustom(fd)

\* variant: the slot is never read and the form starts from the defaults
MountIgnoringSlot(slot, t) ==
    [crashed     |-> FALSE,
     formData    |-> DefaultFormData,
     expiration  |-> Tomorrow(t),
     isJSONValid |-> ParseCustom(DefaultFormData).ok,
     store       |-> <<Stringify(DefaultFormData)>>]

\* the component state after the first render and its effects
Mount(slot, t) ==
    LET present == slot # <<>> /\ slot[1] # EmptyText
        parsed  == IF present THEN JSONParse(slot[1])
                   ELSE [ok |-> TRUE, v |-> DefaultFormData]
        threw   == ~parsed.ok \/ parsed.v.t \in {"null", "undef"}
    IN  [crashed     |-> threw,
         formData    |-> IF threw THEN Undefined ELSE parsed.v,
         expiration  |-> Tomorrow(t),
         isJSONValid |-> IF threw THEN TRUE ELSE ParseCustom(parsed.v).ok,
         store       |-> IF threw THEN slot ELSE <<Stringify(parsed.v)>>]

Init ==
    /\ rev \in Revs
    /\ now = 0
    /\ \E slot \in InitialSlots :
        LET m == Mount(slot, 0) IN
        /\ crashed = m.crashed
        /\ formData = m.formData
        /\ expiration = m.expiration
        /\ isJSONValid = m.isJSONValid
        /\ store = m.store
    /\ generatedToken = <<>>
    /\ error = ""
    /\ keyTitle = InitialKeyTitle(rev)
    /\ largeInput = FALSE
    /\ inflight = {}
    /\ issued = 0
    /\ steps = 0
    /\ showCopySuccess = FALSE
    /\ clipboard = <<>>
    /\ copies = <<>>
    /\ timers = 0
    /\ last = NoLast
    /\ earlier = NoEarlier

\* the page is loaded again: the component is constructed from the slot
Reload ==
    LET m == Mount(store, now) IN
    /\ crashed' = m.crashed
    /\ formData' = m.formData
    /\ expiration' = m.expiration
    /\ isJSONValid' = m.isJSONValid
    /\ store' = m.store
    /\ generatedToken' = <<>>
    /\ error' = ""
    /\ keyTitle' = InitialKeyTitle(rev)
    /\ largeInput' = FALSE
    /\ inflight' = {}
    /\ last' = Reloaded
    /\ earlier' = NoEarlier
    /\ showCopySuccess' = FALSE
    /\ copies' = <<>>
    /\ timers' = 0
    /\ UNCHANGED <<rev, now, issued, steps, clipboard>>

Tick ==
    /\ steps < MaxSteps
    /\ steps' = steps + 1
    /\ now' = now + 1
    /\ UNCHANGED <<rev, store, crashed, formData, expiration, generatedToken,
                   error, keyTitle, largeInput, isJSONValid, inflight, issued,
                   last, earlier>>
    /\ UNCHANGED copyVars

\* variant: the persist effect writes the form state of the previous render
SetFieldStalePersist(name, value) ==
    LET fd == JObj(Put(Spread(formData), name, JStr(value))) IN
    /\ formData' = fd
    /\ store' = <<Stringify(formData)>>
    /\ isJSONValid' = IF Get(fd, KCustom) # Get(formData, KCustom)
                      THEN ParseCustom(fd).ok ELSE isJSONValid

\* variant: the validity effect does not run when the text changes
SetFieldKeepingIndicator(name, value) ==
    LET fd == JObj(Put(Spread(formData), name, JStr(value))) IN
    /\ formData' = fd
    /\ store' = <<Stringify(fd)>>
    /\ UNCHANGED isJSONValid

\* setFormData(prev => ({...prev, [name]: value})) and the two effects
SetField(name, value) ==
    LET fd == JObj(Put(Spread(formData), name, JStr(value))) IN
    /\ formData' = fd
    /\ store' = <<Stringify(fd)>>
    /\ isJSONValid' = IF Get(fd, KCustom) # Get(formData, KCustom)
                      THEN ParseCustom(fd).ok ELSE isJSONValid

\* the fields bound to handleInputChange in revision r
InputNames(r) ==
    IF r = "catalog" THEN {KEmail, KSecret, KCustom}
    ELSE {KEmail, KSecret, KCustom, KAlgorithm}

InputValues(name) ==
    IF name = KEmail THEN Emails
    ELSE IF name = KSecret THEN Secrets
    ELSE IF name = KCustom THEN CustomTexts
    ELSE AlgChoices

handleInputChange(name, value) ==
    /\ ~crashed
    /\ steps < MaxSteps
    /\ steps' = steps + 1
    /\ name \in InputNames(rev)
    /\ SetField(name, value)
    /\ UNCHANGED <<rev, now, crashed, expiration, generatedToken, error,
                   keyTitle, largeInput, inflight, issued, last, earlier>>
    /\ UNCHANGED copyVars

handleSelectChange(value) ==
    /\ ~crashed
    /\ rev = "catalog"
    /\ steps < MaxSteps
    /\ steps' = steps + 1
    /\ IF FindAlgorithm(value) # {}
       THEN LET algorithm == CHOOSE e \in FindAlgorithm(value) : TRUE IN
            /\ keyTitle' = algorithm.keyTitle
            /\ largeInput' = algorithm.largeInput
       ELSE UNCHANGED labelVars
    /\ SetField(KAlgorithm, value)
    /\ UNCHANGED <<rev, now, crashed, expiration, generatedToken, error,
                   inflight, issued, last, earlier>>
    /\ UNCHANGED copyVars

setExpiration(value) ==
    /\ ~crashed
    /\ steps < MaxSteps
    /\ steps' = steps + 1
    /\ expiration' = value
    /\ UNCHANGED <<rev, now, crashed, store, formData, isJSONValid,
                   generatedToken, error, keyTitle, largeInput, inflight,
                   issued, last, earlier>>
    /\ UNCHANGED copyVars

(***************************************************************************)
(* generateToken                                                           *)
(***************************************************************************)
Request(id, pc, fd, e, payload, key, claims) ==
    [id |-> id, pc |-> pc, form |-> fd, expiration |-> e, payload |-> payload,
     key |-> key, claims |-> claims]

Completed(fd, e, ok, imported, signed) ==
    [done |-> TRUE, reloaded |-> FALSE, form |-> fd, expiration |-> e,
     ok |-> ok, imported |-> imported, signed |-> signed,
     before |-> generatedToken, errorBefore |-> error]

\* the last completed call, when it succeeded: its token is still displayed
PreviousSuccess ==
    IF last.done /\ last.ok
    THEN [done |-> TRUE, form |-> last.form, expiration |-> last.expiration,
          token |-> generatedToken]
    ELSE NoEarlier

\* variant: the catch block also clears the displayed token
FailsClearingToken(fd, e, msg, imported, signed) ==
    /\ error' = msg
    /\ last' = Completed(fd, e, FALSE, imported, signed)
    /\ generatedToken' = <<>>
    /\ earlier' = NoEarlier

\* variant: the catch block only logs the failure
FailsSilently(fd, e, msg, imported, signed) ==
    /\ last' = Completed(fd, e, FALSE, imported, signed)
    /\ earlier' = NoEarlier
    /\ UNCHANGED <<generatedToken, error>>

\* catch (err) { setError(err.message) }
Fails(fd, e, msg, imported, signed) ==
    /\ error' = msg
    /\ last' = Completed(fd, e, FALSE, imported, signed)
    /\ earlier' = NoEarlier
    /\ UNCHANGED generatedToken

\* variant: the success path does not clear the error text
SucceedsKeepingError(fd, e, token, imported) ==
    /\ generatedToken' = <<token>>
    /\ last' = Completed(fd, e, TRUE, imported, TRUE)
    /\ earlier' = PreviousSuccess
    /\ UNCHANGED error

\* setGeneratedToken(token); setError('')
Succeeds(fd, e, token, imported) ==
    /\ generatedToken' = <<token>>
    /\ error' = ""
    /\ last' = Completed(fd, e, TRUE, imported, TRUE)
    /\ earlier' = PreviousSuccess

\* the secret field label set by a key-decoding branch of the "flat" revision
BranchLabel(alg) ==
    IF StartsWith(alg, "HS") THEN [keyTitle |-> "JWT Secret (Shared Key)", largeInput |-> FALSE]
    ELSE IF StartsWith(alg, "ES") THEN [keyTitle |-> "EC Private Key", largeInput |-> TRUE]
    ELSE [keyTitle |-> "RSA Private Key", largeInput |-> TRUE]

SetBranchLabel(alg) ==
    IF rev = "flat"
    THEN /\ keyTitle' = BranchLabel(alg).keyTitle
         /\ largeInput' = BranchLabel(alg).largeInput
    ELSE UNCHANGED labelVars

\* the shared-secret key of the HS branch
HmacKey(r, secret) ==
    IF r = "catalog" THEN Encode(Btoa(ToText(secret))) ELSE EncodeValue(secret)

\* new SignJWT(..).setProtectedHeader(..)...setExpirationTime(exp), at time t
BuildClaims(r, fd, e, payload, id, t) ==
    SetStandardClaims(SignJWTClaims(r, payload), t, Uuid(id), Get(fd, KEmail), e)

\* jose revisions: generateToken from the click up to its first await
generateTokenJose ==
    /\ ~crashed
    /\ rev \in JoseRevs
    /\ LET parsed == TryParseCustom(formData)
           alg    == Get(formData, KAlgorithm)
           id     == issued + 1
           payload == JosePayload(formData, expiration, Uuid(id), parsed.v)
       IN
       IF ~parsed.ok
       THEN /\ Fails(formData, expiration, MsgInvalidJSON, FALSE, FALSE)
            /\ UNCHANGED <<inflight, issued, steps, labelVars>>
       ELSE /\ steps < MaxSteps
            /\ steps' = steps + 1
            /\ issued' = id
            /\ IF alg.t # "str"
               THEN /\ Fails(formData, expiration, MsgNotAString, FALSE, FALSE)
                    /\ UNCHANGED <<inflight, labelVars>>
               ELSE IF StartsWith(alg.s, "HS")
               THEN /\ SetBranchLabel(alg.s)
                    /\ inflight' = inflight \cup
                         {Request(id, "sign", formData, expiration, payload,
                                  HmacKey(rev, Get(formData, KSecret)),
                                  BuildClaims(rev, formData, expiration, payload, id, now))}
                    /\ UNCHANGED <<generatedToken, error, last, earlier>>
               ELSE IF \/ StartsWith(alg.s, "RS") \/ StartsWith(alg.s, "PS")
                       \/ StartsWith(alg.s, "ES")
               THEN /\ inflight' = inflight \cup
                         {Request(id, "import", formData, expiration, payload,
                                  NoKey, <<>>)}
                    /\ UNCHANGED <<generatedToken, error, last, earlier, labelVars>>
               ELSE /\ Fails(formData, expiration, MsgUnsupported, FALSE, FALSE)
                    /\ UNCHANGED <<inflight, labelVars>>
    /\ UNCHANGED <<rev, now, crashed, formVars, expiration>>
    /\ UNCHANGED copyVars

\* jose revisions: importPKCS8 settles and generateToken runs on to sign()
importSettles(r) ==
    /\ r \in inflight
    /\ r.pc = "import"
    /\ LET alg == Get(r.form, KAlgorithm).s
           res == importPKCS8(Get(r.form, KSecret), alg)
       IN
       IF ~res.ok
       THEN /\ Fails(r.form, r.expiration, res.msg, TRUE, FALSE)
            /\ inflight' = inflight \ {r}
            /\ UNCHANGED labelVars
       ELSE /\ SetBranchLabel(alg)
            /\ inflight' = (inflight \ {r}) \cup
                 {Request(r.id, "sign", r.form, r.expiration, r.payload, res.key,
                          BuildClaims(rev, r.form, r.expiration, r.payload, r.id, now))}
            /\ UNCHANGED <<generatedToken, error, last, earlier>>
    /\ UNCHANGED <<rev, now, crashed, formVars, expiration, issued, steps>>
    /\ UNCHANGED copyVars

\* variant: a call that is no longer the latest one discards its result
signSettlesLatestOnly(r) ==
    /\ r \in inflight
    /\ r.pc = "sign"
    /\ LET alg == Get(r.form, KAlgorithm).s IN
       \E msg \in JoseSignOutcomes(alg, r.key) :
           IF r.id # issued
           THEN UNCHANGED <<generatedToken, error, last, earlier>>
           ELSE IF msg = ""
           THEN Succeeds(r.form, r.expiration,
                         Token(<<Member(Str("alg"), JStr(alg))>>, r.claims, alg, r.key),
                         r.key.kind = "private")
           ELSE Fails(r.form, r.expiration, msg, r.key.kind = "private", TRUE)
    /\ inflight' = inflight \ {r}
    /\ UNCHANGED <<rev, now, crashed, formVars, expiration, issued, steps,
                   labelVars>>
    /\ UNCHANGED copyVars

\* jose revisions: sign() settles and generateToken runs to its end
signSettles(r) ==
    /\ r \in inflight
    /\ r.pc = "sign"
    /\ LET alg == Get(r.form, KAlgorithm).s IN
       \E msg \in JoseSignOutcomes(alg, r.key) :
           IF msg = ""
           THEN Succeeds(r.form, r.expiration,
                         Token(<<Member(Str("alg"), JStr(alg))>>, r.claims, alg, r.key),
                         r.key.kind = "private")
           ELSE Fails(r.form, r.expiration, msg, r.key.kind = "private", TRUE)
    /\ inflight' = inflight \ {r}
    /\ UNCHANGED <<rev, now, crashed, formVars, expiration, issued, steps,
                   labelVars>>
    /\ UNCHANGED copyVars

\* variant: a successful call wipes the secret from the form and the slot
generateTokenEncodeClearingSecret ==
    /\ ~crashed
    /\ rev = "encode"
    /\ LET parsed == TryParseCustom(formData)
           secret == Get(formData, KSecret)
           id     == issued + 1
           payload == EncodePayload(formData, expiration, Uuid(id), parsed.v)
           wiped  == JObj(Put(Spread(formData), KSecret, JStr(EmptyText)))
       IN
       IF ~parsed.ok
       THEN /\ Fails(formData, expiration, MsgInvalidJSON, FALSE, FALSE)
            /\ UNCHANGED <<issued, steps, formVars>>
       ELSE /\ steps < MaxSteps
            /\ steps' = steps + 1
            /\ issued' = id
            /\ IF secret.t # "str"
               THEN /\ Fails(formData, expiration, MsgSecretType, FALSE, TRUE)
                    /\ UNCHANGED formVars
               ELSE /\ Succeeds(formData, expiration,
                             Token(<<Member(Str("alg"), JStr(AlgId("HS", "256"))),
                                     Member(Str("typ"), JStr(Str("JWT")))>>,
                                   payload, AlgId("HS", "256"), Encode(secret.s)),
                             FALSE)
                    /\ formData' = wiped
                    /\ store' = <<Stringify(wiped)>>
                    /\ UNCHANGED isJSONValid
    /\ UNCHANGED <<rev, now, crashed, expiration, labelVars, inflight>>
    /\ UNCHANGED copyVars

\* jwt-encode revision: generateToken, synchronous
generateTokenEncode ==
    /\ ~crashed
    /\ rev = "encode"
    /\ LET parsed == TryParseCustom(formData)
           secret == Get(formData, KSecret)
           id     == issued + 1
           payload == EncodePayload(formData, expiration, Uuid(id), parsed.v)
       IN
       IF ~parsed.ok
       THEN /\ Fails(formData, expiration, MsgInvalidJSON, FALSE, FALSE)
            /\ UNCHANGED <<issued, steps>>
       ELSE /\ steps < MaxSteps
            /\ steps' = steps + 1
            /\ issued' = id
            /\ IF secret.t # "str"
               THEN Fails(formData, expiration, MsgSecretType, FALSE, TRUE)
               ELSE Succeeds(formData, expiration,
                             Token(<<Member(Str("alg"), JStr(AlgId("HS", "256"))),
                                     Member(Str("typ"), JStr(Str("JWT")))>>,
                                   payload, AlgId("HS", "256"), Encode(secret.s)),
                             FALSE)
    /\ UNCHANGED <<rev, now, crashed, formVars, expiration, labelVars,
                   inflight>>
    /\ UNCHANGED copyVars

(***************************************************************************)
(* copyToClipboard                                                         *)
(***************************************************************************)
\* the sequence q without its i-th element
RemoveAt(q, i) == SubSeq(q, 1, i - 1) \o SubSeq(q, i + 1, Len(q))

\* the copy button is rendered only while a token is displayed; the call
\* passes the token of its render to writeText and suspends
copyToClipboard ==
    /\ ~crashed
    /\ generatedToken # <<>>
    /\ steps < MaxSteps
    /\ steps' = steps + 1
    /\ copies' = Append(copies, generatedToken[1])
    /\ UNCHANGED <<rev, now, store, crashed, formData, expiration,
                   generatedToken, error, keyTitle, largeInput, isJSONValid,
                   inflight, issued, showCopySuccess, clipboard, timers, last,
                   earlier>>

\* variant: the success flag is raised but no timer is started
CopySucceedsWithoutTimer(token) ==
    /\ clipboard' = <<token>>
    /\ showCopySuccess' = TRUE
    /\ UNCHANGED timers

\* setShowCopySuccess(true); setTimeout(() => setShowCopySuccess(false), 2000)
CopySucceeds(token) ==
    /\ clipboard' = <<token>>
    /\ showCopySuccess' = TRUE
    /\ timers' = timers + 1

\* catch (err) { console.error('Failed to copy:', err) }
CopyFails == UNCHANGED <<clipboard, showCopySuccess, timers>>

\* writeText settles: the platform grants or refuses the write
writeTextSettles(i) ==
    /\ i \in 1..Len(copies)
    /\ copies' = RemoveAt(copies, i)
    /\ CopySucceeds(copies[i]) \/ CopyFails
    /\ UNCHANGED <<rev, now, store, crashed, formData, expiration,
                   generatedToken, error, keyTitle, largeInput, isJSONValid,
                   inflight, issued, steps, last, earlier>>

\* a timer of copyToClipboard fires: () => setShowCopySuccess(false)
timerFires ==
    /\ timers > 0
    /\ timers' = timers - 1
    /\ showCopySuccess' = FALSE
    /\ UNCHANGED <<rev, now, store, crashed, formData, expiration,
                   generatedToken, error, keyTitle, largeInput, isJSONValid,
                   inflight, issued, steps, clipboard, copies, last, earlier>>

Next ==
    \/ Reload
    \/ Tick
    \/ \E name \in {KEmail, KSecret, KCustom, KAlgorithm} :
        \E v \in InputValues(name) : handleInputChange(name, v)
    \/ \E v \in AlgChoices : handleSelectChange(v)
    \/ \E v \in ExpirationChoices : setExpiration(v)
    \/ generateTokenJose
    \/ \E r \in inflight : importSettles(r)
    \/ \E r \in inflight : signSettles(r)
    \/ generateTokenEncode
    \/ copyToClipboard
    \/ \E i \in 1..Len(copies) : writeTextSettles(i)
    \/ timerFires

Spec == Init /\ [][Next]_vars

\* the event loop runs every timer that is due
FairSpec == Spec /\ WF_vars(timerFires)

(***************************************************************************)
(* Properties                                                              *)
(***************************************************************************)
\* the algorithm identifier and the secret of the request that completed last
LastAlg == Get(last.form, KAlgorithm)

LastSecret == Get(last.form, KSecret)

IsAsymmetric(alg) == alg \in Catalog /\ ~StartsWith(alg, "HS")

\* a step in which a click on the generate button is handled
GenerateClick == generateTokenJose \/ generateTokenEncode

\* C1: a generate request whose custom-JSON text does not parse fails with
\* 'Invalid JSON in custom data', imports no key, calls no signing primitive
\* and produces no token, in every revision, whatever algorithm and secret.
C1_InvalidJSONFails ==
    (last.done /\ ~ParseCustom(last.form).ok)
        => /\ ~last.ok
           /\ error = MsgInvalidJSON
           /\ ~last.imported
           /\ ~last.signed
           /\ generatedToken = last.before

C1_Witness ==
    /\ last.done
    /\ ~ParseCustom(last.form).ok
    /\ LastAlg.t = "str" /\ IsAsymmetric(LastAlg.s)
    /\ error = MsgInvalidJSON

\* C2: a generate request with an algorithm identifier outside the catalog
\* (and custom JSON that parses) fails with 'Unsupported algorithm' and
\* produces no token.
C2_ForeignAlgorithmRejected ==
    (/\ last.done
     /\ ParseCustom(last.form).ok
     /\ LastAlg.t = "str"
     /\ LastAlg.s \notin Catalog)
        => /\ ~last.ok
           /\ error = MsgUnsupported
           /\ generatedToken = last.before

\* C3: a generate request with an asymmetric algorithm and a secret that
\* is not a PEM private key of that family fails with a visible error, never
\* reaches signing and produces no token.
C3_BadKeyMaterialRejected ==
    (/\ last.done
     /\ ParseCustom(last.form).ok
     /\ LastAlg.t = "str"
     /\ IsAsymmetric(LastAlg.s)
     /\ ~importPKCS8(LastSecret, LastAlg.s).ok)
        => /\ ~last.ok
           /\ error # ""
           /\ ~last.signed
           /\ generatedToken = last.before

\* C4 as stated: after a completed generate request the UI shows either a
\* token and no error, or an error and no token.
C4_TokenXorError ==
    last.done => \/ (generatedToken # <<>> /\ error = "")
                 \/ (generatedToken = <<>> /\ error # "")

\* C4 amended: a completed generate request either set a token and cleared
\* the error text, or set a non-empty error text and left the displayed
\* token as it was (so an earlier token can stay next to a later error).
C4_TokenOrErrorKeepingToken ==
    last.done => IF last.ok
                 THEN generatedToken # <<>> /\ error = ""
                 ELSE generatedToken = last.before /\ error # ""

C4_Witness ==
    /\ last.done
    /\ ~last.ok
    /\ generatedToken # <<>>
    /\ error # ""

\* C5: the step of a generate request that fails on unparseable custom JSON
\* changes the error text only: the generated token is exactly the one
\* displayed before, and form, expiration and label are untouched.
C5_InvalidJSONKeepsToken ==
    [][(GenerateClick /\ ~ParseCustom(formData).ok)
          => /\ generatedToken' = generatedToken
             /\ error' = MsgInvalidJSON
             /\ UNCHANGED <<formVars, expiration, labelVars, crashed, inflight>>]_vars

C5_Witness ==
    /\ last.done
    /\ ~ParseCustom(last.form).ok
    /\ last.before # <<>>
    /\ generatedToken = last.before
    /\ error = MsgInvalidJSON

\* the claim set decoded from the payload segment of a token
DecodedClaims(token) == JSONParse(token.p).v

\* the claims of a token other than those named in keys
ClaimsExcept(token, keys) ==
    LET m == DecodedClaims(token).m IN
    {m[i] : i \in {j \in 1..Len(m) : m[j].k \notin keys}}

SameInputsTwice ==
    /\ last.done
    /\ last.ok
    /\ earlier.done
    /\ earlier.form = last.form
    /\ earlier.expiration = last.expiration

\* C6 as stated: two successful generate requests with identical form state
\* and expiration yield claim sets equal on every claim except jti.
C6_EqualExceptJti ==
    SameInputsTwice
        => ClaimsExcept(generatedToken[1], {Str("jti")})
           = ClaimsExcept(earlier.token[1], {Str("jti")})

\* C6 amended: two successful generate requests with identical form state
\* and expiration yield claim sets equal on every claim except jti and the
\* issued-at time iat.
C6_EqualExceptJtiAndIat ==
    SameInputsTwice
        => ClaimsExcept(generatedToken[1], {Str("jti"), Str("iat")})
           = ClaimsExcept(earlier.token[1], {Str("jti"), Str("iat")})

C6_Witness ==
    /\ SameInputsTwice
    /\ earlier.token # generatedToken
    /\ rev \in JoseRevs

\* claim names the token builder writes itself
ReservedClaims ==
    {Str("sub"), Str("exp"), Str("jti"), Str("iss"), Str("aud"), Str("iat"),
     Str("alg"), Str("username"), Str("userId")}

\* the secret is usable key material for the algorithm
ValidKeyMaterial(secret, alg) ==
    IF StartsWith(alg, "HS") THEN secret.t = "str" /\ secret.s # EmptyText
    ELSE importPKCS8(secret, alg).ok

WellFormedRequest ==
    /\ last.done
    /\ Get(last.form, KEmail).t = "str"
    /\ ParseCustom(last.form).ok
    /\ ParseCustom(last.form).v.t = "obj"
    /\ LastAlg.t = "str"
    /\ LastAlg.s \in Catalog
    /\ ValidKeyMaterial(LastSecret, LastAlg.s)

\* C7: for a well-formed request the payload of the produced token has sub
\* equal to the email, every custom pair whose key is not a reserved claim,
\* and exp equal to floor(epoch-milliseconds of the expiration / 1000).
C7_PayloadCarriesClaims ==
    (WellFormedRequest /\ last.ok)
        => LET claims == DecodedClaims(generatedToken[1])
               custom == ParseCustom(last.form).v.m
           IN  /\ Get(claims, Str("sub")) = Get(last.form, KEmail)
               /\ \A i \in 1..Len(custom) :
                    custom[i].k \notin ReservedClaims
                        => Get(claims, custom[i].k) = custom[i].v
               /\ Get(claims, Str("exp")) = JNum((last.expiration * 60000) \div 1000)

\* a form state as the FormData interface declares it: four string fields
IsFormShape(v) ==
    /\ v.t = "obj"
    /\ \A k \in {KEmail, KSecret, KCustom, KAlgorithm} : Get(v, k).t = "str"

\* a step that loads the page again while it shows a declared form state
ReloadOfPersistedForm == Reload /\ ~crashed /\ IsFormShape(formData)

SlotUsable(slot) ==
    /\ slot # <<>>
    /\ JSONParse(slot[1]).ok
    /\ IsFormShape(JSONParse(slot[1]).v)

\* C9: loading never crashes, and from an absent, corrupt or incompatibly
\* shaped slot the form starts from the defaults.
C9_LoadFailsClosed ==
    [][Reload => /\ ~crashed'
                 /\ (~SlotUsable(store) => formData' = DefaultFormData)]_vars

\* C10: an update sets exactly the named field of the form state, and the
\* slot always holds the serialization of the whole current form state.
C10_UpdatePersists ==
    /\ [](~crashed => store = <<Stringify(formData)>>)
    /\ [][\A name \in {KEmail, KSecret, KCustom, KAlgorithm} :
            \A v \in InputValues(name) :
               (handleInputChange(name, v) \/ (name = KAlgorithm /\ handleSelectChange(v)))
                  => /\ Get(formData', name) = JStr(v)
                     /\ \A k \in {KEmail, KSecret, KCustom, KAlgorithm} \ {name} :
                           Get(formData', k) = Get(formData, k)]_vars

C10_Witness ==
    /\ Get(formData, KAlgorithm) = JStr(AlgId("HS", "256"))
    /\ ~crashed
    /\ formData # DefaultFormData
    /\ Get(formData, KSecret) = JStr(Pem("P-384"))
    /\ store = <<Stringify(formData)>>

\* the secret-field label and affordance that fit the family of alg; the
\* shared-secret family is shown under either of its two labels
FitsFamily(alg, title, large) ==
    IF StartsWith(alg, "HS")
    THEN title \in {"JWT Secret", "JWT Secret (Shared Key)"} /\ ~large
    ELSE IF StartsWith(alg, "ES") THEN title = "EC Private Key" /\ large
    ELSE title = "RSA Private Key" /\ large

\* C11: in every reachable state the label of the secret field and its
\* single-line/multi-line affordance are the ones of the family of the
\* algorithm currently selected in the form.
C11_LabelFollowsAlgorithm ==
    (/\ ~crashed
     /\ Get(formData, KAlgorithm).t = "str"
     /\ Get(formData, KAlgorithm).s \in Catalog)
        => FitsFamily(Get(formData, KAlgorithm).s, keyTitle, largeInput)

\* the compact serialization of a token, as one piece of text
Compact(token) ==
    <<Tok("jwt", token.sig.key.kind, 0,
          token.h \o <<P(".")>> \o token.p \o <<P(".")>> \o token.sig.alg
                  \o token.sig.key.t)>>

\* the string values of the object held as text in a localStorage slot
StoredStrings(text) ==
    LET parsed == JSONParse(text) IN
    IF parsed.ok /\ parsed.v.t = "obj"
    THEN {parsed.v.m[i].v.s : i \in {j \in 1..Len(parsed.v.m) : parsed.v.m[j].v.t = "str"}}
    ELSE {}

\* localStorage holds the token: as a whole slot or as a string in its object
HoldsToken(token) ==
    \E i \in 1..Len(store) :
        store[i] = Compact(token) \/ Compact(token) \in StoredStrings(store[i])

\* C12: after a successful generate request the displayed token is held in
\* the browser's local storage.
C12_TokenInLocalStorage ==
    (last.done /\ last.ok /\ generatedToken # <<>>) => HoldsToken(generatedToken[1])

\* C13: for every shared-secret algorithm the key handed to the signing
\* primitive is the byte encoding of the secret text exactly as typed.
C13_HmacKeyIsRawSecret ==
    (/\ last.done /\ last.ok
     /\ LastAlg.t = "str" /\ LastAlg.s \in Catalog /\ StartsWith(LastAlg.s, "HS")
     /\ LastSecret.t = "str")
        => generatedToken[1].sig.key = Encode(LastSecret.s)

\* the protected header of a token, decoded
DecodedHeader(token) == JSONParse(token.h).v

\* C14: for every supported algorithm the protected header of the produced
\* token names the algorithm selected in the form at the time of the request.
C14_HeaderNamesAlgorithm ==
    (last.done /\ last.ok /\ LastAlg.t = "str" /\ LastAlg.s \in Catalog)
        => Get(DecodedHeader(generatedToken[1]), Str("alg")) = LastAlg

\* the claim set assembled by the request that completed last: the payload
\* literal, with the identifier that request drew
AssembledPayload ==
    LET jti    == Get(DecodedClaims(generatedToken[1]), Str("jti"))
        custom == ParseCustom(last.form).v
    IN  IF rev \in JoseRevs
        THEN JObj(JosePayload(last.form, last.expiration, jti, custom))
        ELSE JObj(EncodePayload(last.form, last.expiration, jti, custom))

StandardFields == {Str("sub"), Str("exp"), Str("jti"), Str("iss"), Str("aud")}

\* C15: each standard field of the signed token that the assembled claim set
\* defines has the value the claim set gives it, whatever the custom JSON
\* object defines.
C15_StandardFieldsFollowClaimSet ==
    (WellFormedRequest /\ last.ok)
        => \A f \in StandardFields :
              Get(AssembledPayload, f) # Undefined
                 => Get(DecodedClaims(generatedToken[1]), f) = Get(AssembledPayload, f)

\* the token identifier carried by a displayed token
JtiOf(shown) == Get(DecodedClaims(shown[1]), Str("jti"))

\* C16: the asynchronous revisions have no generation-in-flight guard; every
\* suspended generate call that leaves an await for good decides the
\* displayed token and error, whichever call was triggered last: on success
\* its own token is shown with no error, on failure its error is shown.
C16_LastCompletionWins ==
    [][\A r \in inflight :
          (inflight' = inflight \ {r} /\ ~last'.reloaded)
             => \/ /\ generatedToken' # <<>>
                   /\ JtiOf(generatedToken') = Uuid(r.id)
                   /\ error' = ""
                   /\ last'.form = r.form
                \/ /\ error' # ""
                   /\ generatedToken' = generatedToken
                   /\ last'.form = r.form]_vars

\* two calls were in flight together, the one triggered second completed
\* first, and the token shown is the one of the call triggered first, built
\* from a form older than the current one
C16_Witness ==
    /\ rev \in JoseRevs
    /\ inflight = {}
    /\ last.done /\ last.ok
    /\ earlier.done
    /\ JtiOf(earlier.token) = Uuid(2)
    /\ JtiOf(generatedToken) = Uuid(1)
    /\ earlier.form = formData
    /\ last.form # formData

\* a step taken by a generate request: the click or one of its resumptions
GenerateStep ==
    \/ GenerateClick
    \/ \E r \in inflight : importSettles(r) \/ signSettles(r)

\* C17: once the page has loaded and after every change of the custom-JSON
\* text, isJSONValid is true exactly when the text parses as JSON, and no
\* step of a generate request changes it.
C17_IndicatorFollowsText ==
    /\ [](~crashed => (isJSONValid <=> ParseCustom(formData).ok))
    /\ [][GenerateStep => isJSONValid' = isJSONValid]_vars

C17_Witness ==
    /\ ~crashed
    /\ ~isJSONValid
    /\ Get(formData, KCustom) = JStr(TextBadJSON)
    /\ steps > 0
    /\ last.done /\ ~last.ok
    /\ ~ParseCustom(last.form).ok

\* C18: no step of a generate request, successful or failed, modifies the
\* form state, the expiration or the persisted slot.
C18_GenerateKeepsForm ==
    [][GenerateStep => UNCHANGED <<formData, expiration, store>>]_vars

\* a successful request of the "flat" revision has changed the label of the
\* secret field, and form, expiration and slot are the ones it started from
C18_Witness ==
    /\ rev = "flat"
    /\ last.done /\ last.ok
    /\ keyTitle = "RSA Private Key"
    /\ generatedToken # <<>>
    /\ last.form = formData
    /\ last.expiration = expiration
    /\ store = <<Stringify(last.form)>>

\* a step in which the i-th suspended copyToClipboard call runs to its end
CopyCompletes(i) ==
    /\ i \in 1..Len(copies)
    /\ copies' = RemoveAt(copies, i)
    /\ ~last'.reloaded

\* C19: a copy request hands the token displayed at the click to the
\* clipboard; when the write succeeds the clipboard holds that token and
\* showCopySuccess is true, when it fails the flag, the clipboard, the error
\* and the token are unchanged; neither outcome touches error or token; and
\* whenever the flag is true it eventually becomes false again, however
\* many copy requests are made.
C19_CopyAndFlag ==
    /\ [][copyToClipboard => copies' = Append(copies, generatedToken[1])]_vars
    /\ [][\A i \in 1..Len(copies) :
            CopyCompletes(i)
               => /\ UNCHANGED <<error, generatedToken>>
                  /\ \/ clipboard' = <<copies[i]>> /\ showCopySuccess'
                     \/ UNCHANGED <<clipboard, showCopySuccess>>]_vars
    /\ [](showCopySuccess => timers > 0)
    /\ (showCopySuccess ~> ~showCopySuccess)

\* two copy requests have succeeded, one timer has fired and one is pending
C19_Witness ==
    /\ clipboard # <<>>
    /\ generatedToken = clipboard
    /\ copies = <<>>
    /\ timers = 1
    /\ ~showCopySuccess

====
